---------------------------- MODULE Spec2Model ----------------------------
(***************************************************************************)
(* A model of podcast_backup.ts: the filename sanitizer, the file          *)
(* downloader, the RSS feed parser and the backup orchestrator.            *)
(*                                                                         *)
(* Strings are sequences of UTF-16 code units, an ASCII one written as a   *)
(* one-character string and any other by its name ("U+0130").  The network,*)
(* the XML library and the disk are the environment: every answer they    *)
(* can give is a nondeterministic choice of the action that asks.          *)
(***************************************************************************)
EXTENDS Integers, Sequences, FiniteSets, TLC

VARIABLES
    call,       \* pure-function specifications: the arguments of the call
    ret,        \* pure-function specifications: what the call returned
    feed,       \* what the feed URL serves: fetch outcome, XML outcome, items
    pc,         \* backupPodcast: the statement the run is at
    episodes,   \* backupPodcast: the episodes parseRSSFeed returned
    idx,        \* backupPodcast: index of the episode of the for-loop
    files,      \* the output directory: a set of [path, data] records
    log,        \* console output of the current run, in order
    hist,       \* history: the sub-steps attempted in the current run
    answers,    \* history: the environment's answers in the current run
    run,        \* number of the current run of the program (1 or 2)
    files1,     \* the output directory as the first run left it
    answers1    \* the environment's answers of the first run

vars == <<call, ret, feed, pc, episodes, idx, files, log, hist, answers,
          run, files1, answers1>>

runVars == <<feed, pc, episodes, idx, files, log, hist, answers,
             run, files1, answers1>>

-----------------------------------------------------------------------------
(* Bounds of the model *)

\* longest title the sanitizer is applied to exhaustively
MaxTitleLen == 3

\* most <item> elements of a feed
MaxItems == 2

-----------------------------------------------------------------------------
(* States shared by the specifications *)

NoCall == [op |-> "none"]

Pending == [done |-> FALSE]

IdleRun ==
    /\ feed = [fetch |-> "none", xml |-> "none", items |-> <<>>]
    /\ pc = "idle"
    /\ episodes = <<>>
    /\ idx = 0
    /\ files = {}
    /\ log = <<>>
    /\ hist = {}
    /\ answers = <<>>
    /\ run = 0
    /\ files1 = {}
    /\ answers1 = <<>>

-----------------------------------------------------------------------------
(* Characters and strings *)

UpperSeq == <<"A","B","C","D","E","F","G","H","I","J","K","L","M",
              "N","O","P","Q","R","S","T","U","V","W","X","Y","Z">>

LowerSeq == <<"a","b","c","d","e","f","g","h","i","j","k","l","m",
              "n","o","p","q","r","s","t","u","v","w","x","y","z">>

DigitSeq == <<"0","1","2","3","4","5","6","7","8","9">>

Range(s) == {s[i] : i \in DOMAIN s}

IndexIn(s, c) == CHOOSE i \in DOMAIN s : s[i] = c

\* s.concat(...): the concatenation of a sequence of strings
RECURSIVE Flatten(_)
Flatten(ss) == IF ss = <<>> THEN <<>> ELSE Head(ss) \o Flatten(Tail(ss))

\* String.prototype.toLowerCase on one code unit.  U+0130 lower-cases to two
\* code units (i, U+0307); the other non-ASCII letter of the model to one.
LowerOfChar(c) ==
    IF c \in Range(UpperSeq) THEN <<LowerSeq[IndexIn(UpperSeq, c)]>>
    ELSE IF c = "U+0130" THEN <<"i", "U+0307">>
    ELSE IF c = "U+00C9" THEN <<"U+00E9">>
    ELSE <<c>>

toLowerCase(s) == Flatten([i \in DOMAIN s |-> LowerOfChar(s[i])])

\* /[^a-z0-9]/gi without the u flag: a code unit matches unless it is an
\* ASCII letter of either case or an ASCII digit.
MatchesNonAlnum(c) ==
    c \notin (Range(LowerSeq) \cup Range(UpperSeq) \cup Range(DigitSeq))

\* filename.replace(/[^a-z0-9]/gi, '_')
ReplaceNonAlnum(s) ==
    [i \in DOMAIN s |-> IF MatchesNonAlnum(s[i]) THEN "_" ELSE s[i]]

\* a faulty variant: the i flag forgotten, upper-case letters are replaced too
sanitizeFilenameNoIFlag(filename) ==
    toLowerCase([i \in DOMAIN filename |->
        IF filename[i] \in Range(LowerSeq) \cup Range(DigitSeq)
        THEN filename[i] ELSE "_"])

sanitizeFilename(filename) == toLowerCase(ReplaceNonAlnum(filename))

-----------------------------------------------------------------------------
(* The output directory and the downloader *)

\* join(dir, name) below the output directory
join(dir, name) == [dir |-> dir, name |-> name]

\* what Deno.writeFile(filepath, bytes) stores
Bytes(b) == [kind |-> "bytes", bytes |-> b, json |-> <<>>]

\* what Deno.writeTextFile(filepath, text) stores
Text(j) == [kind |-> "text", bytes |-> <<>>, json |-> j]

\* a faulty variant: the file is opened for appending instead of being truncated
WriteFileAppend(fs, filepath, data) ==
    LET old == {f \in fs : f.path = filepath}
        was == (CHOOSE f \in old : TRUE).data
    IN  {f \in fs : f.path # filepath} \cup
        {[path |-> filepath,
          data |-> IF old = {} THEN data
                   ELSE [kind |-> data.kind,
                         bytes |-> was.bytes \o data.bytes,
                         json |-> was.json \o data.json]]}

\* Deno.writeFile / Deno.writeTextFile succeeding: the file is created or
\* truncated and holds exactly the data
WriteFile(fs, filepath, data) ==
    {f \in fs : f.path # filepath} \cup {[path |-> filepath, data |-> data]}

Exists(fs, filepath) == \E f \in fs : f.path = filepath

\* Number.prototype.toString of a non-negative integer
RECURSIVE NumToString(_)
NumToString(n) ==
    IF n < 10 THEN <<DigitSeq[n + 1]>>
    ELSE NumToString(n \div 10) \o <<DigitSeq[(n % 10) + 1]>>

\* Response.ok
ResponseOk(status) == status \in 200..299

\* "Failed to download: "
FailedToDownload ==
    <<"F","a","i","l","e","d"," ","t","o"," ",
      "d","o","w","n","l","o","a","d",":"," ">>

\* the result of a call: it returned a value, or it threw
Return(success, error, fs) ==
    [type |-> "return", success |-> success, error |-> error, files |-> fs]

Throw(message, fs) ==
    [type |-> "throw", success |-> FALSE, error |-> message, files |-> fs]

\* a faulty variant: response.ok is not looked at, the body of an error page is saved
downloadFileNoOkCheck(url, filepath, ans, fs) ==
    IF ans.fetch = "throw" THEN Return(FALSE, ans.message, fs)
    ELSE IF ans.body = "throw" THEN Return(FALSE, ans.message, fs)
    ELSE IF ans.write = "throw" THEN Return(FALSE, ans.message, fs)
    ELSE Return(TRUE, <<>>, WriteFile(fs, filepath, Bytes(ans.bytes)))

\* downloadFile(url, filepath) where the network and the disk answer ans:
\* fetch, the ok test, arrayBuffer, writeFile; every throw is caught
downloadFile(url, filepath, ans, fs) ==
    IF ans.fetch = "throw" THEN Return(FALSE, ans.message, fs)
    ELSE IF ~ResponseOk(ans.status)
        THEN Return(FALSE, FailedToDownload \o NumToString(ans.status)
                           \o <<" ">> \o ans.statusText, fs)
    ELSE IF ans.body = "throw" THEN Return(FALSE, ans.message, fs)
    ELSE IF ans.write = "throw" THEN Return(FALSE, ans.message, fs)
    ELSE Return(TRUE, <<>>, WriteFile(fs, filepath, Bytes(ans.bytes)))

\* The answers of the environment to one download.  A failed write is taken
\* to leave the directory as it was.
FetchThrows ==
    [fetch |-> "throw", status |-> 0, statusText |-> <<>>, body |-> "none",
     bytes |-> <<>>, write |-> "none", message |-> <<"n","e","t">>]

Responds(status, statusText, bytes) ==
    [fetch |-> "ok", status |-> status, statusText |-> statusText,
     body |-> "ok", bytes |-> bytes, write |-> "ok", message |-> <<>>]

BodyThrows(status, statusText) ==
    [Responds(status, statusText, <<>>) EXCEPT
        !.body = "throw", !.write = "none", !.message = <<"e","o","f">>]

WriteThrows(status, statusText, bytes) ==
    [Responds(status, statusText, bytes) EXCEPT
        !.write = "throw", !.message = <<"E","N","O","S","P","C">>]

NotFound == <<"N","o","t"," ","F","o","u","n","d">>

-----------------------------------------------------------------------------
(* Specification of the downloader alone *)

DlStatuses == {<<200, <<"O","K">>>>, <<204, <<>>>>, <<304, <<>>>>,
               <<404, NotFound>>, <<500, <<>>>>}

DlBodies == {<<>>, <<"x">>, <<"x","y">>}

DlAnswers ==
    {FetchThrows}
    \cup {Responds(st[1], st[2], b) : st \in DlStatuses, b \in DlBodies}
    \cup {BodyThrows(st[1], st[2]) : st \in DlStatuses}
    \cup {WriteThrows(st[1], st[2], b) : st \in DlStatuses, b \in DlBodies}

DlPath == join("audio", <<"a",".","m","p","3">>)

DlOtherPath == join("images", <<"a",".","j","p","g">>)

DlDirs ==
    { {},
      {[path |-> DlPath, data |-> Bytes(<<"o","l","d">>)]},
      {[path |-> DlOtherPath, data |-> Bytes(<<"o","l","d">>)]} }

InitDl ==
    /\ call \in {[op |-> "downloadFile", url |-> <<"u">>, filepath |-> DlPath,
                  ans |-> a, files |-> d] : a \in DlAnswers, d \in DlDirs}
    /\ ret = Pending
    /\ IdleRun

CallDownload ==
    /\ call.op = "downloadFile"
    /\ ret = Pending
    /\ ret' = [done |-> TRUE,
               val |-> downloadFile(call.url, call.filepath, call.ans, call.files)]
    /\ UNCHANGED <<call, runVars>>

NextDl == CallDownload

SpecDl == InitDl /\ [][NextDl]_vars

\* sub occurs in s as a contiguous substring
Contains(s, sub) ==
    \E i \in 0..(Len(s) - Len(sub)) : SubSeq(s, i + 1, i + Len(sub)) = sub

\* the decimal digits of the statuses of the model, written out
StatusDigits(status) ==
    CASE status = 200 -> <<"2","0","0">>
      [] status = 204 -> <<"2","0","4">>
      [] status = 304 -> <<"3","0","4">>
      [] status = 404 -> <<"4","0","4">>
      [] status = 500 -> <<"5","0","0">>

\* C5: downloadFile always returns a DownloadResult and never throws; the
\* result is a success exactly when the response was OK, its body was read
\* and the write went through, and then the destination holds exactly the
\* body; a response that is not OK gives a failure whose message contains
\* the status and leaves the directory as it was; an exception gives a
\* failure carrying the exception's message.
C5_DownloadNeverThrows ==
    (call.op = "downloadFile" /\ ret.done) =>
        LET a == call.ans
            r == ret.val
            okAll == /\ a.fetch = "ok"
                     /\ a.status \in 200..299
                     /\ a.body = "ok"
                     /\ a.write = "ok"
        IN  /\ r.type = "return"
            /\ r.success \in BOOLEAN
            /\ r.success <=> okAll
            /\ r.success =>
                 /\ \E f \in r.files :
                      f.path = call.filepath /\ f.data = Bytes(a.bytes)
                 /\ Cardinality({f \in r.files : f.path = call.filepath}) = 1
                 /\ {f \in r.files : f.path # call.filepath}
                      = {f \in call.files : f.path # call.filepath}
            /\ ~r.success => r.files = call.files
            /\ (a.fetch = "ok" /\ a.status \notin 200..299) =>
                 /\ ~r.success
                 /\ Contains(r.error, StatusDigits(a.status))
            /\ (a.fetch = "throw" \/ (a.status \in 200..299 /\
                    (a.body = "throw" \/ a.write = "throw"))) =>
                 /\ ~r.success
                 /\ r.error = a.message

\* a 404 has been turned into a failure result and the old file is intact
C5_Witness ==
    /\ call.op = "downloadFile"
    /\ ret.done
    /\ call.ans.status = 404
    /\ call.ans.body = "ok"
    /\ call.files # {}
    /\ ~ret.val.success
    /\ ret.val.error = FailedToDownload \o <<"4","0","4"," ">> \o NotFound

-----------------------------------------------------------------------------
(* JavaScript values, the feed parser and JSON.stringify *)

Undefined == [t |-> "undefined", s |-> <<>>, n |-> 0]

Null == [t |-> "null", s |-> <<>>, n |-> 0]

NaN == [t |-> "NaN", s |-> <<>>, n |-> 0]

Str(s) == [t |-> "string", s |-> s, n |-> 0]

Num(n) == [t |-> "number", s |-> <<>>, n |-> n]

\* an element with attributes; s is its '#text', '@href' or '@url'
Obj(s) == [t |-> "object", s |-> s, n |-> 0]

\* ToBoolean
Truthy(v) ==
    CASE v.t = "string" -> v.s # <<>>
      [] v.t = "number" -> v.n # 0
      [] v.t = "object" -> TRUE
      [] OTHER -> FALSE

\* the value of a decimal digit string, most significant digit first
RECURSIVE DigitsValue(_)
DigitsValue(ds) ==
    IF ds = <<>> THEN 0
    ELSE 10 * DigitsValue(SubSeq(ds, 1, Len(ds) - 1))
           + (IndexIn(DigitSeq, ds[Len(ds)]) - 1)

\* the longest prefix of decimal digits
RECURSIVE DigitPrefix(_)
DigitPrefix(s) ==
    IF s = <<>> \/ Head(s) \notin Range(DigitSeq) THEN <<>>
    ELSE <<Head(s)>> \o DigitPrefix(Tail(s))

RECURSIVE TrimStart(_)
TrimStart(s) ==
    IF s # <<>> /\ Head(s) = " " THEN TrimStart(Tail(s)) ELSE s

\* parseInt(string): leading white space, a sign, then decimal digits;
\* NaN when there is no digit
ParseIntChars(s) ==
    LET t == TrimStart(s)
        neg == t # <<>> /\ Head(t) = "-"
        u == IF t # <<>> /\ Head(t) \in {"-", "+"} THEN Tail(t) ELSE t
        ds == DigitPrefix(u)
    IN  IF ds = <<>> THEN NaN
        ELSE Num(IF neg THEN 0 - DigitsValue(ds) ELSE DigitsValue(ds))

\* parseInt(v): the argument is first converted to a string
parseInt(v) ==
    CASE v.t = "string" -> ParseIntChars(v.s)
      [] v.t = "number" ->
            IF v.n < 0 THEN Num(v.n) ELSE ParseIntChars(NumToString(v.n))
      [] OTHER -> NaN

\* item.guid['#text'] || item.guid
GuidOf(item) ==
    IF item.guid.t = "object" /\ item.guid.s # <<>>
    THEN Str(item.guid.s) ELSE item.guid

\* item['itunes:image']?.['@href'] || ''
ImageUrlOf(item) ==
    IF item.image.t = "object" /\ item.image.s # <<>>
    THEN Str(item.image.s) ELSE Str(<<>>)

\* item.enclosure['@url']; an enclosure without the attribute gives undefined
AudioUrlOf(item) ==
    IF item.enclosure.s # <<>> THEN Str(item.enclosure.s) ELSE Undefined

\* item[tag] ? parseInt(item[tag]) : undefined
NumberOf(v) == IF Truthy(v) THEN parseInt(v) ELSE Undefined

\* reading a property of undefined throws a TypeError
ItemFaults(item) ==
    item.guid.t = "undefined" \/ item.enclosure.t = "undefined"

\* the callback of items.map
EpisodeOf(item) ==
    [title |-> Str(item.title),
     guid |-> GuidOf(item),
     pubDate |-> Str(item.pubDate),
     duration |-> Str(item.duration),
     description |-> Str(item.description),
     link |-> Str(item.link),
     imageUrl |-> ImageUrlOf(item),
     audioUrl |-> AudioUrlOf(item),
     season |-> NumberOf(item.season),
     episode |-> NumberOf(item.episode)]

\* parseXml(xmlContent): the library throws on malformed text; it gives the
\* child elements of one name as an array when there are several, as a
\* single object when there is one, and no property when there is none
parseXml(xml, items) ==
    IF xml = "throw" THEN [type |-> "throw", kind |-> "none", list |-> <<>>]
    ELSE [type |-> "return",
          kind |-> IF Len(items) = 0 THEN "undefined"
                   ELSE IF Len(items) = 1 THEN "object" ELSE "array",
          list |-> items]

ParseReturn(eps) == [type |-> "return", episodes |-> eps]

ParseThrow == [type |-> "throw", episodes |-> <<>>]

\* a faulty variant: an item that faults is left out instead of failing the parse
RECURSIVE MapSkippingFaults(_)
MapSkippingFaults(items) ==
    IF items = <<>> THEN <<>>
    ELSE (IF ItemFaults(Head(items)) THEN <<>> ELSE <<EpisodeOf(Head(items))>>)
            \o MapSkippingFaults(Tail(items))

parseRSSFeedSkipFaults(doc) ==
    IF doc.type = "throw" THEN ParseThrow
    ELSE IF doc.kind # "array" THEN ParseThrow
    ELSE ParseReturn(MapSkippingFaults(doc.list))

\* parseRSSFeed(xmlContent), given what parseXml made of the text:
\* doc.rss.channel.item has a map method only when it is an array
parseRSSFeed(doc) ==
    IF doc.type = "throw" THEN ParseThrow
    ELSE IF doc.kind # "array" THEN ParseThrow
    ELSE IF \E i \in DOMAIN doc.list : ItemFaults(doc.list[i]) THEN ParseThrow
    ELSE ParseReturn([i \in DOMAIN doc.list |-> EpisodeOf(doc.list[i])])

EpisodeKeys == <<"title", "guid", "pubDate", "duration", "description",
                 "link", "imageUrl", "audioUrl", "season", "episode">>

\* JSON.stringify of one property value: NaN is written as null
JsonValue(v) == IF v.t = "NaN" THEN Null ELSE v

RECURSIVE JsonPairs(_, _)
JsonPairs(ep, keys) ==
    IF keys = <<>> THEN <<>>
    ELSE (IF ep[Head(keys)].t = "undefined" THEN <<>>
          ELSE << <<Head(keys), JsonValue(ep[Head(keys)])>> >>)
            \o JsonPairs(ep, Tail(keys))

\* JSON.stringify(episode, null, 2): the properties in the order of their
\* creation, one whose value is undefined left out (the layout of the text,
\* its line breaks and indentation, is not modelled)
JSONstringify(ep) == JsonPairs(ep, EpisodeKeys)

HasKey(json, k) == \E i \in DOMAIN json : json[i][1] = k

ValueOf(json, k) == json[CHOOSE i \in DOMAIN json : json[i][1] = k][2]

-----------------------------------------------------------------------------
(* Specification of the feed parser alone *)

\* an <item>: the values the XML library gives for its children (a number
\* where the text is numeric, null for an empty element, undefined for a
\* missing one)
Item(title, guid, image, enclosure, season, episode) ==
    [title |-> title, guid |-> guid, pubDate |-> <<"d">>, duration |-> <<"9">>,
     description |-> <<"t","x","t">>, link |-> <<"l">>,
     image |-> image, enclosure |-> enclosure,
     season |-> season, episode |-> episode]

Mp3 == <<"h","/","a",".","m","p","3">>

Png == <<"h","/","c",".","p","n","g">>

PlainItem(title, season, episode) ==
    Item(title, Str(<<"g">>), Undefined, Obj(Mp3), season, episode)

ParseItems ==
    { PlainItem(<<"p">>, Undefined, Undefined),
      PlainItem(<<"q">>, Num(2), Num(3)),
      PlainItem(<<"r">>, Num(0), Undefined),
      PlainItem(<<"s">>, Null, Num(0)),
      PlainItem(<<"t">>, Str(<<"S","2">>), Undefined),
      PlainItem(<<"u">>, Str(<<"1","2">>), Str(<<"x">>)),
      Item(<<"v">>, Obj(<<"g">>), Obj(Png), Obj(Mp3), Undefined, Num(7)),
      Item(<<"w">>, Str(<<"g">>), Obj(<<>>), Obj(<<>>), Undefined, Undefined),
      Item(<<"x">>, Str(<<"g">>), Undefined, Undefined, Num(1), Undefined),
      Item(<<"y">>, Undefined, Undefined, Obj(Mp3), Undefined, Undefined) }

RECURSIVE SeqsUpTo(_, _)
SeqsUpTo(S, n) ==
    IF n = 0 THEN {<<>>}
    ELSE LET shorter == SeqsUpTo(S, n - 1)
         IN  shorter \cup {Append(q, x) : q \in shorter, x \in S}

InitParse ==
    /\ call \in {[op |-> "parseRSSFeed", xml |-> "ok", items |-> q] :
                    q \in SeqsUpTo(ParseItems, MaxItems)}
                \cup {[op |-> "parseRSSFeed", xml |-> "throw", items |-> <<>>]}
    /\ ret = Pending
    /\ IdleRun

CallParse ==
    /\ call.op = "parseRSSFeed"
    /\ ret = Pending
    /\ ret' = [done |-> TRUE,
               val |-> parseRSSFeed(parseXml(call.xml, call.items))]
    /\ UNCHANGED <<call, runVars>>

\* the orchestrator serializes each episode it was given
CallStringify ==
    /\ call.op = "parseRSSFeed"
    /\ ret.done
    /\ "json" \notin DOMAIN ret
    /\ ret.val.type = "return"
    /\ ret' = [done |-> TRUE, val |-> ret.val,
               json |-> [i \in DOMAIN ret.val.episodes |->
                            JSONstringify(ret.val.episodes[i])]]
    /\ UNCHANGED <<call, runVars>>

NextParse == CallParse \/ CallStringify

SpecParse == InitParse /\ [][NextParse]_vars

WellFormed(item) ==
    item.guid.t # "undefined" /\ item.enclosure.t # "undefined"

\* C6 (as claimed): a feed of N >= 1 items, each with a guid and an
\* enclosure, parses to exactly N episodes in document order, a feed of
\* one item included.
C6_NItemsGiveNEpisodes ==
    (/\ call.op = "parseRSSFeed"
     /\ ret.done
     /\ call.xml = "ok"
     /\ Len(call.items) >= 1
     /\ \A i \in DOMAIN call.items : WellFormed(call.items[i]))
    => /\ ret.val.type = "return"
       /\ Len(ret.val.episodes) = Len(call.items)
       /\ \A i \in DOMAIN call.items :
            ret.val.episodes[i].title = Str(call.items[i].title)

\* the feed supplies a number for the tag: a numeric value, or text made of
\* decimal digits
SuppliesNumber(raw) ==
    \/ raw.t = "number" /\ raw.n >= 0
    \/ raw.t = "string" /\ raw.s # <<>> /\ Range(raw.s) \subseteq Range(DigitSeq)

SuppliedNumber(raw) ==
    IF raw.t = "number" THEN raw.n ELSE DigitsValue(raw.s)

FieldAsClaimed(ep, json, raw, k) ==
    /\ (ep[k].t # "undefined") <=> SuppliesNumber(raw)
    /\ HasKey(json, k) <=> SuppliesNumber(raw)
    /\ SuppliesNumber(raw) =>
         /\ ep[k] = Num(SuppliedNumber(raw))
         /\ ValueOf(json, k) = Num(SuppliedNumber(raw))

\* C7 (as claimed): an Episode, and the JSON written from it, has a season
\* (an episode) field exactly when the item supplies a number for it, and
\* then the field is that number, 0 included; otherwise the field is left
\* out and is never null or NaN.
C7_SeasonEpisodeOnlyWhenNumeric ==
    (call.op = "parseRSSFeed" /\ ret.done /\ "json" \in DOMAIN ret) =>
        \A i \in DOMAIN ret.val.episodes :
            /\ FieldAsClaimed(ret.val.episodes[i], ret.json[i],
                              call.items[i].season, "season")
            /\ FieldAsClaimed(ret.val.episodes[i], ret.json[i],
                              call.items[i].episode, "episode")

-----------------------------------------------------------------------------
(* backupPodcast *)

\* s.split('.').pop(): what follows the last '.', all of s when it has none
RECURSIVE LastSegment(_)
LastSegment(s) ==
    IF s = <<>> THEN <<>>
    ELSE IF s[Len(s)] = "." THEN <<>>
    ELSE LastSegment(SubSeq(s, 1, Len(s) - 1)) \o <<s[Len(s)]>>

Jpg == <<"j","p","g">>

\* episode.imageUrl.split('.').pop() || 'jpg'
imageExt(imageUrl) ==
    IF LastSegment(imageUrl) # <<>> THEN LastSegment(imageUrl) ELSE Jpg

baseFilename(ep) == sanitizeFilename(ep.title.s)

audioPath(ep) == join("audio", baseFilename(ep) \o <<".","m","p","3">>)

imagePath(ep) ==
    join("images", baseFilename(ep) \o <<".">> \o imageExt(ep.imageUrl.s))

jsonPath(ep) == join("json", baseFilename(ep) \o <<".","j","s","o","n">>)

\* an answer of the disk alone (ensureDir, writeTextFile)
DiskOk == [FetchThrows EXCEPT !.fetch = "none", !.write = "ok", !.message = <<>>]

DiskThrows ==
    [FetchThrows EXCEPT !.fetch = "none", !.write = "throw",
                        !.message = <<"E","N","O","S","P","C">>]

\* the answers to a download of url: the server sends the resource (its
\* bytes are written as the URL itself), or a 404, or the connection or the
\* write fails (a failing body read, which downloadFile turns into the same
\* result as a failing connection, is left to the downloader's own
\* specification)
AnswersFor(url) ==
    { Responds(200, <<"O","K">>, url),
      Responds(404, NotFound, <<>>),
      FetchThrows,
      WriteThrows(200, <<"O","K">>, url) }

\* The answers the environment gives to the next request: any of S in the
\* first run; in a second run against the same feed and directory, the
\* answer it gave to the same request of the first run.
Reply(S) ==
    IF run = 2
    THEN {a \in S : /\ Len(answers) < Len(answers1)
                    /\ a = answers1[Len(answers) + 1]}
    ELSE S

Line(text, arg) == <<text, arg>>

\* catch (error) { console.error('Error during backup:', message) }
catch(lg, message) ==
    [pc |-> "returned",
     log |-> Append(lg, Line("Error during backup:", message))]

Attempt(i, step, path, ok) == [ep |-> i, step |-> step, path |-> path, ok |-> ok]

\* lines 74-81: the three ensureDir calls
EnsureDirs ==
    /\ pc = "start"
    /\ \E a \in Reply({DiskOk, DiskThrows}) :
         /\ answers' = Append(answers, a)
         /\ IF a.write = "ok"
            THEN pc' = "fetch" /\ log' = log
            ELSE LET c == catch(log, a.message)
                 IN  pc' = c.pc /\ log' = c.log
    /\ UNCHANGED <<call, ret, feed, episodes, idx, files, hist,
                   run, files1, answers1>>

TypeError == <<"T","y","p","e","E","r","r","o","r">>

\* lines 84-86: fetch(rssUrl), response.text(), parseRSSFeed(xmlContent)
FetchAndParse ==
    /\ pc = "fetch"
    /\ LET parsed == parseRSSFeed(parseXml(feed.xml, feed.items))
       IN  IF feed.fetch = "throw"
           THEN LET c == catch(log, FetchThrows.message)
                IN  pc' = c.pc /\ log' = c.log /\ episodes' = episodes
           ELSE IF parsed.type = "throw"
           THEN LET c == catch(log, TypeError)
                IN  pc' = c.pc /\ log' = c.log /\ episodes' = episodes
           ELSE /\ pc' = "loop"
                /\ log' = log
                /\ episodes' = parsed.episodes
    /\ UNCHANGED <<call, ret, feed, idx, files, hist, answers,
                   run, files1, answers1>>

\* lines 89-92: the next episode of the for-loop
ProcessEpisode ==
    /\ pc = "loop"
    /\ idx < Len(episodes)
    /\ idx' = idx + 1
    /\ log' = Append(log, Line("Processing episode: ", episodes[idx + 1].title.s))
    /\ pc' = "audio"
    /\ UNCHANGED <<call, ret, feed, episodes, files, hist, answers,
                   run, files1, answers1>>

\* one download of the loop body and its console output (lines 96-101,
\* 106-112); an exception out of downloadFile would reach the catch clause
Download(step, what, url, path, next) ==
    \E a \in Reply(AnswersFor(url)) :
        LET r == downloadFile(url, path, a, files)
            title == episodes[idx].title.s
            outcome == Append(log,
                Line(what \o " download "
                        \o (IF r.success THEN "successful" ELSE "failed")
                        \o ": ", title))
        IN  /\ answers' = Append(answers, a)
            /\ hist' = hist \cup {Attempt(idx, step, path, r.type = "return" /\ r.success)}
            /\ files' = r.files
            /\ IF r.type = "throw"
               THEN LET c == catch(log, r.error)
                    IN  pc' = c.pc /\ log' = c.log
               ELSE /\ pc' = next
                    /\ log' = IF r.success THEN outcome
                              ELSE Append(outcome,
                                     Line("Error downloading " \o step \o ": ",
                                          r.error))

\* lines 95-102
AudioStep ==
    /\ pc = "audio"
    /\ LET ep == episodes[idx]
       IN  IF Truthy(ep.audioUrl)
           THEN Download("audio", "Audio", ep.audioUrl.s, audioPath(ep), "image")
           ELSE pc' = "image" /\ UNCHANGED <<files, log, hist, answers>>
    /\ UNCHANGED <<call, ret, feed, episodes, idx, run, files1, answers1>>

\* lines 105-113
ImageStep ==
    /\ pc = "image"
    /\ LET ep == episodes[idx]
       IN  IF Truthy(ep.imageUrl)
           THEN Download("image", "Image", ep.imageUrl.s, imagePath(ep), "json")
           ELSE pc' = "json" /\ UNCHANGED <<files, log, hist, answers>>
    /\ UNCHANGED <<call, ret, feed, episodes, idx, run, files1, answers1>>

\* lines 116-118: the write is not guarded, its exception reaches the catch
\* clause of the function
JsonStep ==
    /\ pc = "json"
    /\ LET ep == episodes[idx]
       IN  \E a \in Reply({DiskOk, DiskThrows}) :
             /\ answers' = Append(answers, a)
             /\ hist' = hist \cup {Attempt(idx, "json", jsonPath(ep), a.write = "ok")}
             /\ IF a.write = "ok"
                THEN /\ files' = WriteFile(files, jsonPath(ep),
                                           Text(JSONstringify(ep)))
                     /\ log' = Append(log, Line("JSON metadata saved: ", ep.title.s))
                     /\ pc' = "loop"
                ELSE LET c == catch(log, a.message)
                     IN  pc' = c.pc /\ log' = c.log /\ files' = files
    /\ UNCHANGED <<call, ret, feed, episodes, idx, run, files1, answers1>>

Completed == Line("Backup completed successfully!", <<>>)

\* line 121
Complete ==
    /\ pc = "loop"
    /\ idx = Len(episodes)
    /\ log' = Append(log, Completed)
    /\ pc' = "returned"
    /\ UNCHANGED <<call, ret, feed, episodes, idx, files, hist, answers,
                   run, files1, answers1>>

\* the items of the feeds of the model: one with audio and image; one with
\* audio only whose title sanitizes to the same base name; one with an image
\* URL without a '.' and an enclosure without URL; one without an enclosure
TitleAB == <<"A","/","B">>

Titleab == <<"a"," ","b">>

TitleEp1 == <<"E","p","1">>

TitleEp2 == <<"E","p","2">>

Cover == <<"h","/","c","o","v","e","r">>

FeedItems ==
    { Item(TitleAB, Str(<<"g">>), Obj(Png), Obj(Mp3), Num(1), Num(1)),
      Item(Titleab, Obj(<<"k">>), Undefined, Obj(<<"h","/","b",".","m","p","3">>),
           Undefined, Str(<<"x">>)),
      Item(TitleEp1, Str(<<"m">>), Obj(Cover), Obj(<<>>), Undefined, Undefined),
      Item(TitleEp2, Str(<<"n">>), Undefined, Undefined, Undefined, Undefined) }

Feeds ==
    {[fetch |-> "ok", xml |-> "ok", items |-> q] : q \in SeqsUpTo(FeedItems, MaxItems)}
    \cup {[fetch |-> "throw", xml |-> "none", items |-> <<>>],
          [fetch |-> "ok", xml |-> "throw", items |-> <<>>]}

\* line 132: backupPodcast(RSS_URL, OUTPUT_DIR) is called on an empty
\* output directory
Init ==
    /\ call = NoCall
    /\ ret = Pending
    /\ feed \in Feeds
    /\ pc = "start"
    /\ episodes = <<>>
    /\ idx = 0
    /\ files = {}
    /\ log = <<>>
    /\ hist = {}
    /\ answers = <<>>
    /\ run = 1
    /\ files1 = {}
    /\ answers1 = <<>>

Next ==
    \/ EnsureDirs
    \/ FetchAndParse
    \/ ProcessEpisode
    \/ AudioStep
    \/ ImageStep
    \/ JsonStep
    \/ Complete

Spec == Init /\ [][Next]_vars

\* the program is run a second time on the directory the first run left
Rerun ==
    /\ pc = "returned"
    /\ run = 1
    /\ run' = 2
    /\ files1' = files
    /\ answers1' = answers
    /\ pc' = "start"
    /\ episodes' = <<>>
    /\ idx' = 0
    /\ log' = <<>>
    /\ hist' = {}
    /\ answers' = <<>>
    /\ UNCHANGED <<call, ret, feed, files>>

NextTwice ==
    \/ EnsureDirs
    \/ FetchAndParse
    \/ ProcessEpisode
    \/ AudioStep
    \/ ImageStep
    \/ JsonStep
    \/ Complete
    \/ Rerun

SpecTwice == Init /\ [][NextTwice]_vars

-----------------------------------------------------------------------------
(* Properties of backupPodcast *)

\* parseRSSFeed returned (it returns no empty list: see C6)
Parsed == episodes # <<>>

Attempted(i, step) == \E h \in hist : h.ep = i /\ h.step = step

PathsIn(dir) == {f.path : f \in {g \in files : g.path.dir = dir}}

Count(lg, line) == Cardinality({k \in DOMAIN lg : lg[k] = line})

\* every sub-step of every episode ran, and the directory holds a JSON file
\* for every episode and audio files for exactly the successful downloads
AllEpisodesProcessed ==
    /\ \A i \in DOMAIN episodes :
         /\ Truthy(episodes[i].audioUrl) => Attempted(i, "audio")
         /\ Truthy(episodes[i].imageUrl) => Attempted(i, "image")
         /\ Attempted(i, "json")
         /\ Exists(files, jsonPath(episodes[i]))
    /\ PathsIn("audio") = {h.path : h \in {g \in hist : g.step = "audio" /\ g.ok}}

\* C1 (as claimed): whatever the results of the audio and image downloads,
\* a run whose feed was parsed attempts the image download and the JSON
\* write of every episode and goes on to every later episode, so that it
\* ends with a JSON file for every episode and an audio file exactly for
\* the episodes whose audio download succeeded.
C1_DownloadsNeverStopProcessing ==
    (pc = "returned" /\ Parsed) => AllEpisodesProcessed

\* C2 (as claimed): when the JSON write of episode N fails, episode N+1 is
\* still processed: its downloads are attempted and its JSON is written.
C2_JsonFailureDoesNotAbort ==
    \A h \in hist :
        (/\ pc = "returned"
         /\ h.step = "json"
         /\ ~h.ok
         /\ h.ep < Len(episodes))
        => /\ Attempted(h.ep + 1, "json")
           /\ Truthy(episodes[h.ep + 1].audioUrl) => Attempted(h.ep + 1, "audio")
           /\ Truthy(episodes[h.ep + 1].imageUrl) => Attempted(h.ep + 1, "image")

\* C3 (as claimed): a run whose feed was parsed logs the completion message
\* exactly once, as its last line, after the last episode; the message is
\* never there before the episodes of the feed have been processed.
C3_CompletionLoggedOnce ==
    /\ (pc = "returned" /\ Parsed) =>
         /\ Count(log, Completed) = 1
         /\ log[Len(log)] = Completed
    /\ Completed \in Range(log) =>
         /\ Len(episodes) >= 1
         /\ \A i \in DOMAIN episodes : Attempted(i, "json")

\* What does hold of the loop: a run whose feed was parsed and in which no
\* JSON write threw processes every episode and logs the completion once,
\* whatever the downloads returned.
ProcessedUnlessJsonWriteThrows ==
    (/\ pc = "returned"
     /\ Parsed
     /\ \A h \in hist : h.step = "json" => h.ok)
    => /\ AllEpisodesProcessed
       /\ Count(log, Completed) = 1
       /\ log[Len(log)] = Completed

\* the feed cannot be fetched, is not XML, has no array of items, or has an
\* item without guid or enclosure
FeedFails ==
    \/ feed.fetch = "throw"
    \/ feed.xml = "throw"
    \/ Len(feed.items) < 2
    \/ \E i \in DOMAIN feed.items :
         feed.items[i].enclosure.t = "undefined" \/ feed.items[i].guid.t = "undefined"

\* C4: when the fetch or the parse of the feed fails, a missing enclosure
\* included, the run never throws to its caller, downloads nothing, writes
\* no file and never logs the completion message; it ends returned, with
\* the run-level error as its only console line.
C4_FeedFailureIsFatal ==
    FeedFails =>
        /\ pc \in {"start", "fetch", "returned"}
        /\ hist = {}
        /\ files = {}
        /\ Completed \notin Range(log)
        /\ pc = "returned" =>
             /\ Len(log) = 1
             /\ log[1][1] = "Error during backup:"

\* a feed whose second item has no enclosure ended the run with the error
C4_Witness ==
    /\ pc = "returned"
    /\ feed.fetch = "ok"
    /\ feed.xml = "ok"
    /\ Len(feed.items) = 2
    /\ feed.items[1].enclosure.t = "object"
    /\ feed.items[2].enclosure.t = "undefined"
    /\ log = <<Line("Error during backup:", TypeError)>>

HasDot(url) == \E k \in DOMAIN url : url[k] = "."

AfterLastDot(url) ==
    LET k == CHOOSE j \in DOMAIN url :
                url[j] = "." /\ \A m \in DOMAIN url : m > j => url[m] # "."
    IN  SubSeq(url, k + 1, Len(url))

\* C8 (as claimed): an episode with an image URL has its image downloaded
\* to images/{baseFilename}.{ext}, ext being what follows the last '.' of
\* the URL, and 'jpg' when the URL has no '.'; an episode with an empty
\* image URL has no image download.
C8_ImageExtension ==
    /\ \A h \in hist : h.step = "image" =>
         LET url == episodes[h.ep].imageUrl.s
             ext == IF HasDot(url) THEN AfterLastDot(url) ELSE Jpg
         IN  /\ url # <<>>
             /\ h.path = join("images",
                    sanitizeFilename(episodes[h.ep].title.s) \o <<".">> \o ext)
    /\ \A i \in DOMAIN episodes :
         (episodes[i].imageUrl.s # <<>> /\ Attempted(i, "json"))
            => Attempted(i, "image")

\* C10: a second run against the same feed and the same output directory,
\* the servers and the disk answering as in the first, leaves the directory
\* with the same files of the same content as the first run left it, one
\* file to a path.
C10_SecondRunChangesNothing ==
    (run = 2 /\ pc = "returned") =>
        /\ files = files1
        /\ \A f, g \in files : f.path = g.path => f = g

\* a second run has ended after overwriting an audio file, an image and
\* the JSON of two episodes that share a base name
C10_Witness ==
    /\ run = 2
    /\ pc = "returned"
    /\ Completed \in Range(log)
    /\ episodes[1].title # episodes[2].title
    /\ jsonPath(episodes[1]) = jsonPath(episodes[2])
    /\ Exists(files, audioPath(episodes[1]))
    /\ Exists(files, imagePath(episodes[1]))
    /\ Exists(files, jsonPath(episodes[1]))

-----------------------------------------------------------------------------
(* Specification of the sanitizer alone *)

SanAlphabet == {"A", "b", "Z", "5", "_", "-", " ", "U+00C9", "U+0130"}

RECURSIVE StringsUpTo(_, _)
StringsUpTo(S, n) ==
    IF n = 0 THEN {<<>>}
    ELSE LET shorter == StringsUpTo(S, n - 1)
         IN  shorter \cup {Append(s, c) : s \in shorter, c \in S}

\* "Ep. 5: A/B Test!"
ExampleTitle ==
    <<"E","p","."," ","5",":"," ","A","/","B"," ","T","e","s","t","!">>

\* "ep__5__a_b_test_"
ExampleBase ==
    <<"e","p","_","_","5","_","_","a","_","b","_","t","e","s","t","_">>

InitSan ==
    /\ call \in {[op |-> "sanitizeFilename", filename |-> s] :
                    s \in StringsUpTo(SanAlphabet, MaxTitleLen) \cup {ExampleTitle}}
    /\ ret = Pending
    /\ IdleRun

CallSanitize ==
    /\ call.op = "sanitizeFilename"
    /\ ret = Pending
    /\ ret' = [done |-> TRUE, val |-> sanitizeFilename(call.filename)]
    /\ UNCHANGED <<call, runVars>>

NextSan == CallSanitize

SpecSan == InitSan /\ [][NextSan]_vars

\* the characters of [a-z0-9_], written out for the statement of the claim
SafeChars ==
    {"a","b","c","d","e","f","g","h","i","j","k","l","m","n","o","p","q","r",
     "s","t","u","v","w","x","y","z","0","1","2","3","4","5","6","7","8","9","_"}

AsciiAlnum ==
    (SafeChars \ {"_"}) \cup
    {"A","B","C","D","E","F","G","H","I","J","K","L","M","N","O","P","Q","R",
     "S","T","U","V","W","X","Y","Z"}

\* C9: sanitizeFilename returns, for every string, a string of the same
\* length over [a-z0-9_] in which an ASCII letter or digit of the input
\* stands lower-cased at its place and every other character is "_"; the
\* title "Ep. 5: A/B Test!" gives "ep__5__a_b_test_".
C9_SanitizeCharwise ==
    (call.op = "sanitizeFilename" /\ ret.done) =>
        LET in == call.filename
            out == ret.val
        IN  /\ Len(out) = Len(in)
            /\ \A i \in 1..Len(out) :
                 /\ out[i] \in SafeChars
                 /\ in[i] \in AsciiAlnum => <<out[i]>> = LowerOfChar(in[i])
                 /\ in[i] \notin AsciiAlnum => out[i] = "_"
            /\ in = ExampleTitle => out = ExampleBase

\* an input with an upper-case letter, a digit, a non-ASCII letter whose
\* lower case is longer, and punctuation has been sanitized
C9_Witness ==
    /\ call.op = "sanitizeFilename"
    /\ ret.done
    /\ call.filename = <<"Z", "U+0130", "5">>
    /\ ret.val = <<"z", "_", "5">>

=============================================================================
